---------------------------- MODULE Spec2Model ----------------------------
(***************************************************************************)
(* A model of discordLevelingSystem/rank_card.py: the RankCard object, its *)
(* create() coroutine (source resolution, then the compositing pipeline),  *)
(* the _image() fetch helper and the _convert_number() formatter.          *)
(*                                                                         *)
(* Strings are sequences of one-character strings.  Images are opaque: a   *)
(* decoded image is the record [kind |-> "image"].  The outside world (the *)
(* HTTP server, the file system) is fixed when the object is built, so two *)
(* calls of create() see the same external responses.                      *)
(***************************************************************************)
EXTENDS Integers, Sequences, FiniteSets, TLC

(* ----------------------------- bounds --------------------------------- *)
\* create() calls made on the one RankCard instance
MaxCalls == 2
\* current_xp ranges over 0..MaxCurrentXp, max_xp over 0..MaxMaxXp
MaxCurrentXp == 11
MaxMaxXp == 9
\* half-width of the windows of _convert_number inputs around each pivot
FmtWindow == 8

(* ------------------------- program constants -------------------------- *)
\* rank_card.py:207  bar_exp = (current_xp/max_xp)*420
BarScale == 420
\* rank_card.py:208  if bar_exp <= 50: bar_exp = 50
BarFloor == 50
\* rank_card.py:233  the track: rounded_rectangle((0, 0, 420, 50), ...)
TrackWidth == 420
\* rank_card.py:149  if response.status != 200
HttpOk == 200
\* rank_card.py:138 and :140
Million == 1000000
Thousand == 1000

(* ------------------------------ strings ------------------------------- *)
\* rank_card.py:178/186  the literal "http" given to str.startswith
HttpPrefix == <<"h", "t", "t", "p">>

\* str.startswith(prefix)
startswith(s, prefix) ==
    /\ Len(prefix) <= Len(s)
    /\ SubSeq(s, 1, Len(prefix)) = prefix

UrlHttp     == <<"h", "t", "t", "p", ":", "/", "/", "x">>
UrlHttps    == <<"h", "t", "t", "p", "s", ":", "/", "/", "x">>
PathHttpDir == <<"h", "t", "t", "p", "d", "/", "a">>
PathPlain   == <<"b", "g", ".", "p", "n", "g">>
PathUpper   == <<"H", "T", "T", "P", ":", "/", "/", "x">>
PathShort   == <<"h", "t">>

\* the string values a caller hands in as a source
BackgroundStrings == {UrlHttp, UrlHttps, PathHttpDir, PathPlain, PathUpper, PathShort}
AvatarStrings     == {UrlHttp, PathHttpDir, PathPlain, PathShort}

(* ------------------------------ buffers ------------------------------- *)
\* The io.IOBase objects a caller can hand in as background: what
\* seekable() and readable() answer, whether the object has a `mode`
\* attribute and its value, and whether it yields bytes.
Buffer(s, r, hm, m, b) ==
    [kind |-> "buffer", seekable |-> s, readable |-> r,
     hasMode |-> hm, mode |-> m, binary |-> b]

FileRb       == Buffer(TRUE,  TRUE,  TRUE,  "rb",  TRUE)    \* open(p, "rb")
FileRbPlus   == Buffer(TRUE,  TRUE,  TRUE,  "rb+", TRUE)    \* open(p, "rb+")
FileText     == Buffer(TRUE,  TRUE,  TRUE,  "r",   FALSE)   \* open(p, "r")
FileWb       == Buffer(TRUE,  FALSE, TRUE,  "wb",  TRUE)    \* open(p, "wb")
PipeRb       == Buffer(FALSE, TRUE,  TRUE,  "rb",  TRUE)    \* unseekable stream
BytesBuffer  == Buffer(TRUE,  TRUE,  FALSE, "",    TRUE)    \* io.BytesIO
StringBuffer == Buffer(TRUE,  TRUE,  FALSE, "",    FALSE)   \* io.StringIO

Buffers == {FileRb, FileRbPlus, FileText, FileWb, PipeRb, BytesBuffer, StringBuffer}

Str(s)   == [kind |-> "str", value |-> s]
\* any value that is neither an IOBase nor a str (an int, a PathLike)
Other    == [kind |-> "other"]
\* a decoded PIL image
Image    == [kind |-> "image"]

(* --------------------------- outside world ---------------------------- *)
\* What lies behind a source: a decodable image, bytes that are no image,
\* nothing (HTTP 404 / no such file), or an HTTP 204 reply without a body.
Sources == {"background", "avatar"}

StatusOf(e) ==
    CASE e = "absent"    -> 404
      [] e = "nocontent" -> 204
      [] OTHER           -> HttpOk

Decodable(e) == e = "ok"

UrlWorlds    == {"ok", "undecodable", "absent", "nocontent"}
FileWorlds   == {"ok", "undecodable", "absent"}
BufferWorlds == {"ok", "undecodable"}

\* the worlds that make sense for a source value
WorldsOf(src) ==
    CASE src.kind = "buffer" -> BufferWorlds
      [] src.kind = "str"    ->
            IF startswith(src.value, HttpPrefix) THEN UrlWorlds ELSE FileWorlds
      [] OTHER               -> {"ok"}

(* ------------------------------- state -------------------------------- *)
VARIABLES
    background,   \* self.background: the source, later the decoded image
    avatar,       \* self.avatar: the source, later the decoded image
    level,        \* self.level
    current_xp,   \* self.current_xp
    max_xp,       \* self.max_xp
    world,        \* what lies behind each source (fixed)
    args,         \* the values given to __init__: settings.background, avatar
    pc,           \* where create() stands; "idle" between calls
    resolving,    \* the source _image() is fetching ("none" outside it)
    session,      \* number of open ClientSession objects
    status,       \* response.status inside _image() (0: no response)
    raised,       \* the exception _image() is leaving with ("none": returns)
    io,           \* per source, what this call did: sessions, gets, ...
    steps,        \* the compositing operations this call performed
    bar_exp,      \* the local bar_exp, a fraction num/den (den = 0: unset)
    texts,        \* the strings drawn: current/max XP and the level line
    bufPos,       \* read position of the BytesIO returned (-1: none)
    outcomes,     \* result of each finished call: "ok" or the error raised
    number,       \* argument of a direct _convert_number call
    formatted     \* its result (<<>>: not called yet)

vars == <<background, avatar, level, current_xp, max_xp, world, args, pc, resolving,
          session, status, raised, io, steps, bar_exp, texts, bufPos,
          outcomes, number, formatted>>

(* -------------------------- _convert_number --------------------------- *)
DigitChars == <<"0", "1", "2", "3", "4", "5", "6", "7", "8", "9">>

\* str(n) for an int n >= 0
RECURSIVE str(_)
str(n) ==
    IF n < 10 THEN <<DigitChars[n + 1]>>
    ELSE str(n \div 10) \o <<DigitChars[(n % 10) + 1]>>

\* The float quotient number/unit is a binary fraction: where the exact
\* quotient lies half way between two 3-decimal values and is no binary
\* fraction itself (5^6 does not divide number), the side the quotient was
\* rounded to decides the digit, which the model leaves open (`up`).
ExactInBinary(n) == n % 15625 = 0

\* f"{number / unit:.3f}": the quotient in thousandths, rounded to nearest
FixedThousandths(n, unit, up) ==
    LET step == unit \div 1000
        t    == n \div step
        rem  == n % step
    IN  IF 2 * rem < step THEN t
        ELSE IF 2 * rem > step THEN t + 1
        ELSE IF ExactInBinary(n) THEN (IF t % 2 = 0 THEN t ELSE t + 1)
        ELSE IF up THEN t + 1 ELSE t

\* the text of a value given in thousandths: integer part, ".", 3 digits
Fixed3(t) ==
    LET f == t % 1000
    IN  str(t \div 1000) \o <<".">> \o
        <<DigitChars[(f \div 100) + 1], DigitChars[((f \div 10) % 10) + 1],
          DigitChars[(f % 10) + 1]>>

\* the inputs whose last digit hangs on the float quotient's rounding
TieChoices(n) ==
    IF n >= Million /\ n % 1000 = 500 /\ ~ExactInBinary(n) THEN BOOLEAN ELSE {FALSE}

\* faulty variant: the million boundary compared with > instead of >=
convert_number_gt(n, up) ==
    IF n > Million THEN Fixed3(FixedThousandths(n, Million, up)) \o <<"M">>
    ELSE IF n >= Thousand THEN Fixed3(FixedThousandths(n, Thousand, up)) \o <<"K">>
    ELSE str(n)

\* RankCard._convert_number
convert_number(n, up) ==
    IF n >= Million THEN Fixed3(FixedThousandths(n, Million, up)) \o <<"M">>
    ELSE IF n >= Thousand THEN Fixed3(FixedThousandths(n, Thousand, up)) \o <<"K">>
    ELSE str(n)

(* ------------------------------ helpers ------------------------------- *)
\* rank_card.py:174  seekable() and readable() and mode == "rb"; `and`
\* stops at the first false operand, and reading `mode` off an object that
\* has none raises AttributeError.
BufferCheck(b) ==
    IF ~b.seekable THEN "InvalidImageType"
    ELSE IF ~b.readable THEN "InvalidImageType"
    ELSE IF ~b.hasMode THEN "AttributeError"
    ELSE IF b.mode = "rb" THEN "ok"
    ELSE "InvalidImageType"

\* faulty variant: only "https" strings are taken for URLs
IsUrlHttpsOnly(s) == startswith(s, HttpPrefix \o <<"s">>)

\* rank_card.py:178 and :186
IsUrl(s) == startswith(s, HttpPrefix)

\* faulty variant: every 2xx status is taken for success
StatusAcceptedAny2xx(st) == st >= HttpOk /\ st < 300

\* rank_card.py:149
StatusAccepted(st) == st = HttpOk

\* faulty variant: the session is closed on return only (no context manager)
SessionAExitReturnOnly(open, exc) == IF exc = "none" THEN open - 1 ELSE open

\* leaving `async with ClientSession()`: the session is closed on return
\* and on an exception alike
SessionAExit(open, exc) == open - 1

\* rank_card.py:207-209; a fraction [num, den] with den > 0
BarExp(cur, max) ==
    IF cur * BarScale <= BarFloor * max
    THEN [num |-> BarFloor, den |-> 1]
    ELSE [num |-> cur * BarScale, den |-> max]

NoIo == [s \in Sources |->
            [sessions |-> 0, gets |-> 0, reads |-> 0, decodes |-> 0, opens |-> 0]]

NoBar == [num |-> 0, den |-> 0]
NoTexts == [xp |-> <<>>, level |-> <<>>]

\* the exception leaves create(): the call is over
Raise(e) ==
    /\ outcomes' = Append(outcomes, e)
    /\ pc' = "idle"

\* one compositing operation is performed
Did(op) == steps' = Append(steps, op)

(* -------------------------------- Init -------------------------------- *)
BackgroundValues == Buffers \cup {Str(s) : s \in BackgroundStrings} \cup {Other}
AvatarValues     == {Str(s) : s \in AvatarStrings} \cup {Other}

\* RankCard.__init__
Init ==
    /\ background \in BackgroundValues
    /\ avatar \in AvatarValues
    /\ level = 5
    /\ current_xp \in 0..MaxCurrentXp
    /\ max_xp \in 0..MaxMaxXp
    /\ world \in [Sources -> UrlWorlds]
    /\ world["background"] \in WorldsOf(background)
    /\ world["avatar"] \in WorldsOf(avatar)
    /\ args = [background |-> background, avatar |-> avatar]
    /\ pc = "idle"
    /\ resolving = "none"
    /\ session = 0
    /\ status = 0
    /\ raised = "none"
    /\ io = NoIo
    /\ steps = <<>>
    /\ bar_exp = NoBar
    /\ texts = NoTexts
    /\ bufPos = -1
    /\ outcomes = <<>>
    /\ number = 0
    /\ formatted = <<>>

(* ------------------------------ create() ------------------------------ *)
\* a caller awaits create() on the instance
Call ==
    /\ pc = "idle"
    /\ Len(outcomes) < MaxCalls
    /\ pc' = "background"
    /\ io' = NoIo
    /\ steps' = <<>>
    /\ bar_exp' = NoBar
    /\ texts' = NoTexts
    /\ bufPos' = -1
    /\ UNCHANGED <<background, avatar, level, current_xp, max_xp, world, args,
                   resolving, session, status, raised, outcomes, number, formatted>>

\* Image.open(<stream>) on the bytes behind source s: the image, or the
\* generic PIL error
OpenImage(s, next) ==
    IF Decodable(world[s])
    THEN /\ pc' = next
         /\ UNCHANGED outcomes
    ELSE Raise("UnidentifiedImageError")

\* rank_card.py:173-183
ResolveBackground ==
    /\ pc = "background"
    /\ IF background.kind = "buffer"
       THEN IF BufferCheck(background) # "ok"
            THEN /\ Raise(BufferCheck(background))
                 /\ UNCHANGED <<background, resolving, io>>
            ELSE /\ io' = [io EXCEPT !["background"].reads = @ + 1,
                                     !["background"].decodes = @ + 1]
                 /\ OpenImage("background", "avatar")
                 /\ background' = IF Decodable(world["background"])
                                  THEN Image ELSE background
                 /\ UNCHANGED resolving
       ELSE IF background.kind = "str"
       THEN IF IsUrl(background.value)
            THEN /\ pc' = "image_enter"
                 /\ resolving' = "background"
                 /\ UNCHANGED <<background, io, outcomes>>
            ELSE /\ io' = [io EXCEPT !["background"].opens = @ + 1,
                                     !["background"].decodes =
                                        IF world["background"] = "absent" THEN @ ELSE @ + 1]
                 /\ IF world["background"] = "absent"
                    THEN Raise("FileNotFoundError")
                    ELSE OpenImage("background", "avatar")
                 /\ background' = IF Decodable(world["background"])
                                  THEN Image ELSE background
                 /\ UNCHANGED resolving
       ELSE /\ Raise("InvalidImageType")
            /\ UNCHANGED <<background, resolving, io>>
    /\ UNCHANGED <<avatar, level, current_xp, max_xp, world, args, session, status,
                   raised, steps, bar_exp, texts, bufPos, number, formatted>>

\* rank_card.py:185-191
ResolveAvatar ==
    /\ pc = "avatar"
    /\ IF avatar.kind = "str"
       THEN IF IsUrl(avatar.value)
            THEN /\ pc' = "image_enter"
                 /\ resolving' = "avatar"
                 /\ UNCHANGED <<avatar, io, outcomes>>
            ELSE /\ io' = [io EXCEPT !["avatar"].opens = @ + 1,
                                     !["avatar"].decodes =
                                        IF world["avatar"] = "absent" THEN @ ELSE @ + 1]
                 /\ IF world["avatar"] = "absent"
                    THEN Raise("FileNotFoundError")
                    ELSE OpenImage("avatar", "avatar_resize")
                 /\ avatar' = IF Decodable(world["avatar"]) THEN Image ELSE avatar
                 /\ UNCHANGED resolving
       ELSE /\ Raise("InvalidImageType")
            /\ UNCHANGED <<avatar, resolving, io>>
    /\ UNCHANGED <<background, level, current_xp, max_xp, world, args, session, status,
                   raised, steps, bar_exp, texts, bufPos, number, formatted>>

(* ------------------------------ _image() ------------------------------ *)
\* rank_card.py:147  async with ClientSession() as session
ImageSessionOpen ==
    /\ pc = "image_enter"
    /\ session' = session + 1
    /\ io' = [io EXCEPT ![resolving].sessions = @ + 1]
    /\ status' = 0
    /\ raised' = "none"
    /\ pc' = "image_get"
    /\ UNCHANGED <<background, avatar, level, current_xp, max_xp, world, args, resolving,
                   steps, bar_exp, texts, bufPos, outcomes, number, formatted>>

\* rank_card.py:148  async with session.get(url) as response
ImageGet ==
    /\ pc = "image_get"
    /\ io' = [io EXCEPT ![resolving].gets = @ + 1]
    /\ status' = StatusOf(world[resolving])
    /\ pc' = "image_status"
    /\ UNCHANGED <<background, avatar, level, current_xp, max_xp, world, args, resolving,
                   session, raised, steps, bar_exp, texts, bufPos, outcomes,
                   number, formatted>>

\* rank_card.py:149-150
ImageStatus ==
    /\ pc = "image_status"
    /\ IF StatusAccepted(status)
       THEN /\ pc' = "image_read"
            /\ UNCHANGED raised
       ELSE /\ raised' = "InvalidImageUrl"
            /\ pc' = "image_exit"
    /\ UNCHANGED <<background, avatar, level, current_xp, max_xp, world, args, resolving,
                   session, status, io, steps, bar_exp, texts, bufPos, outcomes,
                   number, formatted>>

\* rank_card.py:151  data = await response.read()
ImageRead ==
    /\ pc = "image_read"
    /\ io' = [io EXCEPT ![resolving].reads = @ + 1]
    /\ pc' = "image_decode"
    /\ UNCHANGED <<background, avatar, level, current_xp, max_xp, world, args, resolving,
                   session, status, raised, steps, bar_exp, texts, bufPos, outcomes,
                   number, formatted>>

\* rank_card.py:152  return Image.open(BytesIO(data))
ImageDecode ==
    /\ pc = "image_decode"
    /\ io' = [io EXCEPT ![resolving].decodes = @ + 1]
    /\ raised' = IF Decodable(world[resolving]) THEN "none" ELSE "UnidentifiedImageError"
    /\ pc' = "image_exit"
    /\ UNCHANGED <<background, avatar, level, current_xp, max_xp, world, args, resolving,
                   session, status, steps, bar_exp, texts, bufPos, outcomes,
                   number, formatted>>

\* Leaving the two `async with` blocks of _image(), by return or by
\* exception, and back in create() at rank_card.py:179 or :187: the image
\* is stored in the field, or the exception leaves create().
ImageSessionClose ==
    /\ pc = "image_exit"
    /\ session' = SessionAExit(session, raised)
    /\ resolving' = "none"
    /\ IF raised # "none"
       THEN /\ Raise(raised)
            /\ UNCHANGED <<background, avatar>>
       ELSE /\ UNCHANGED outcomes
            /\ IF resolving = "background"
               THEN /\ background' = Image
                    /\ pc' = "avatar"
                    /\ UNCHANGED avatar
               ELSE /\ avatar' = Image
                    /\ pc' = "avatar_resize"
                    /\ UNCHANGED background
    /\ UNCHANGED <<level, current_xp, max_xp, world, args, status, raised, io, steps,
                   bar_exp, texts, bufPos, number, formatted>>

(* ---------------------------- compositing ----------------------------- *)
\* rank_card.py:193
AvatarResize ==
    /\ pc = "avatar_resize"
    /\ Did([op |-> "avatar_resize", size |-> <<170, 170>>])
    /\ pc' = "canvas"
    /\ UNCHANGED <<background, avatar, level, current_xp, max_xp, world, args, resolving,
                   session, status, raised, io, bar_exp, texts, bufPos, outcomes,
                   number, formatted>>

\* rank_card.py:195-200
BackgroundCanvas ==
    /\ pc = "canvas"
    /\ Did([op |-> "background_paste", size |-> <<638, 159>>, at |-> <<0, 0>>])
    /\ pc' = "overlay"
    /\ UNCHANGED <<background, avatar, level, current_xp, max_xp, world, args, resolving,
                   session, status, raised, io, bar_exp, texts, bufPos, outcomes,
                   number, formatted>>

\* rank_card.py:201
OverlayPaste ==
    /\ pc = "overlay"
    /\ Did([op |-> "overlay_paste", at |-> <<0, 0>>])
    /\ pc' = "username"
    /\ UNCHANGED <<background, avatar, level, current_xp, max_xp, world, args, resolving,
                   session, status, raised, io, bar_exp, texts, bufPos, outcomes,
                   number, formatted>>

\* rank_card.py:203-206
UsernameText ==
    /\ pc = "username"
    /\ Did([op |-> "username_text", font |-> 40])
    /\ pc' = "bar_exp"
    /\ UNCHANGED <<background, avatar, level, current_xp, max_xp, world, args, resolving,
                   session, status, raised, io, bar_exp, texts, bufPos, outcomes,
                   number, formatted>>

\* rank_card.py:207-209; the division raises ZeroDivisionError for max_xp = 0
ComputeBar ==
    /\ pc = "bar_exp"
    /\ IF max_xp = 0
       THEN /\ Raise("ZeroDivisionError")
            /\ UNCHANGED bar_exp
       ELSE /\ bar_exp' = BarExp(current_xp, max_xp)
            /\ pc' = "format_xp"
            /\ UNCHANGED outcomes
    /\ UNCHANGED <<background, avatar, level, current_xp, max_xp, world, args, resolving,
                   session, status, raised, io, steps, texts, bufPos, number, formatted>>

\* rank_card.py:211-213
FormatXp ==
    /\ pc = "format_xp"
    /\ \E u1 \in TieChoices(current_xp), u2 \in TieChoices(max_xp) :
          texts' = [texts EXCEPT !.xp = convert_number(current_xp, u1) \o <<"/">>
                                          \o convert_number(max_xp, u2)]
    /\ pc' = "level"
    /\ UNCHANGED <<background, avatar, level, current_xp, max_xp, world, args, resolving,
                   session, status, raised, io, steps, bar_exp, bufPos, outcomes,
                   number, formatted>>

\* rank_card.py:216-217
LevelText ==
    /\ pc = "level"
    /\ \E u \in TieChoices(level) :
          texts' = [texts EXCEPT !.level =
                       <<"L", "E", "V", "E", "L", " ", "-", " ">> \o convert_number(level, u)]
    /\ Did([op |-> "level_text", font |-> 30])
    /\ pc' = "xp_text"
    /\ UNCHANGED <<background, avatar, level, current_xp, max_xp, world, args, resolving,
                   session, status, raised, io, bar_exp, bufPos, outcomes,
                   number, formatted>>

\* rank_card.py:219-220
XpText ==
    /\ pc = "xp_text"
    /\ Did([op |-> "xp_text", font |-> 30])
    /\ pc' = "avatar_paste"
    /\ UNCHANGED <<background, avatar, level, current_xp, max_xp, world, args, resolving,
                   session, status, raised, io, bar_exp, texts, bufPos, outcomes,
                   number, formatted>>

\* rank_card.py:222-229; the alpha extraction in the try block succeeds or
\* raises, and `except Exception` then pastes the avatar without a mask
AvatarPaste ==
    /\ pc = "avatar_paste"
    /\ \E alphaFails \in BOOLEAN :
          Did([op |-> "avatar_paste", at |-> <<13, 65>>, alpha |-> ~alphaFails])
    /\ pc' = "bar"
    /\ UNCHANGED <<background, avatar, level, current_xp, max_xp, world, args, resolving,
                   session, status, raised, io, bar_exp, texts, bufPos, outcomes,
                   number, formatted>>

\* rank_card.py:231-235
BarPaste ==
    /\ pc = "bar"
    /\ Did([op |-> "bar_paste", at |-> <<190, 235>>, filled |-> bar_exp])
    /\ pc' = "curved"
    /\ UNCHANGED <<background, avatar, level, current_xp, max_xp, world, args, resolving,
                   session, status, raised, io, bar_exp, texts, bufPos, outcomes,
                   number, formatted>>

\* rank_card.py:236-237
CurvedMask ==
    /\ pc = "curved"
    /\ Did([op |-> "curved_mask"])
    /\ pc' = "final_resize"
    /\ UNCHANGED <<background, avatar, level, current_xp, max_xp, world, args, resolving,
                   session, status, raised, io, bar_exp, texts, bufPos, outcomes,
                   number, formatted>>

\* rank_card.py:238; self.background is the new image
FinalResize ==
    /\ pc = "final_resize"
    /\ Did([op |-> "final_resize", size |-> <<505, 259>>])
    /\ background' = Image
    /\ pc' = "encode"
    /\ UNCHANGED <<avatar, level, current_xp, max_xp, world, args, resolving,
                   session, status, raised, io, bar_exp, texts, bufPos, outcomes,
                   number, formatted>>

\* the bytes save() writes: some positive count
EncodedSize == 1

\* rank_card.py:240-241; writing leaves the position at the end
Encode ==
    /\ pc = "encode"
    /\ Did([op |-> "png_encode"])
    /\ bufPos' = EncodedSize
    /\ pc' = "return"
    /\ UNCHANGED <<background, avatar, level, current_xp, max_xp, world, args, resolving,
                   session, status, raised, io, bar_exp, texts, outcomes,
                   number, formatted>>

\* faulty variant: the buffer is returned without being rewound
SeekStartSkipped(pos) == pos

\* image.seek(0)
SeekStart(pos) == 0

\* rank_card.py:242-243
Return ==
    /\ pc = "return"
    /\ bufPos' = SeekStart(bufPos)
    /\ outcomes' = Append(outcomes, "ok")
    /\ pc' = "idle"
    /\ UNCHANGED <<background, avatar, level, current_xp, max_xp, world, args, resolving,
                   session, status, raised, io, steps, bar_exp, texts,
                   number, formatted>>

Next ==
    \/ Call
    \/ ResolveBackground
    \/ ResolveAvatar
    \/ ImageSessionOpen
    \/ ImageGet
    \/ ImageStatus
    \/ ImageRead
    \/ ImageDecode
    \/ ImageSessionClose
    \/ AvatarResize
    \/ BackgroundCanvas
    \/ OverlayPaste
    \/ UsernameText
    \/ ComputeBar
    \/ FormatXp
    \/ LevelText
    \/ XpText
    \/ AvatarPaste
    \/ BarPaste
    \/ CurvedMask
    \/ FinalResize
    \/ Encode
    \/ Return

Spec == Init /\ [][Next]_vars

(* ------------------- _convert_number called directly ------------------ *)
\* the inputs: windows around the magnitude boundaries, around values whose
\* quotient lies half way between two 3-decimal values, and others
FmtPivots == {0, 1000, 1000000, 1000500, 1062500, 1187500, 1500000, 1999500}

FmtInputs == {p + d : p \in FmtPivots, d \in (0 - FmtWindow)..FmtWindow} \cap Nat

InitFmt ==
    /\ background = Str(PathPlain)
    /\ avatar = Str(UrlHttp)
    /\ level = 5
    /\ current_xp = 0
    /\ max_xp = 1
    /\ world = [s \in Sources |-> "ok"]
    /\ args = [background |-> background, avatar |-> avatar]
    /\ pc = "idle"
    /\ resolving = "none"
    /\ session = 0
    /\ status = 0
    /\ raised = "none"
    /\ io = NoIo
    /\ steps = <<>>
    /\ bar_exp = NoBar
    /\ texts = NoTexts
    /\ bufPos = -1
    /\ outcomes = <<>>
    /\ number \in FmtInputs
    /\ formatted = <<>>

\* RankCard._convert_number(number)
ConvertNumber ==
    /\ formatted = <<>>
    /\ \E up \in TieChoices(number) : formatted' = convert_number(number, up)
    /\ UNCHANGED <<background, avatar, level, current_xp, max_xp, world, args, pc,
                   resolving, session, status, raised, io, steps, bar_exp, texts,
                   bufPos, outcomes, number>>

NextFmt == ConvertNumber

SpecFmt == InitFmt /\ [][NextFmt]_vars

(* ========================= properties checked ========================= *)
Last(s) == s[Len(s)]

\* the call in progress, or just finished, is the first on the instance
FirstCall == Len(outcomes) = 0 \/ (Len(outcomes) = 1 /\ pc = "idle")

\* a call has finished and no other has started
Finished == pc = "idle" /\ Len(outcomes) >= 1

\* the first call has gone through the resolution of the background
BackgroundHandled ==
    \/ Len(outcomes) = 0 /\ pc \notin {"idle", "background"}
    \/ Len(outcomes) = 1 /\ pc = "idle"

IoTotal(s) == io[s].sessions + io[s].gets + io[s].reads + io[s].decodes + io[s].opens

(* ---- C1 ---- *)
\* clamp(current_xp/max_xp * 420, 50, 420) as a fraction
ClampedWidth(cur, max) ==
    IF cur * BarScale <= BarFloor * max THEN [num |-> BarFloor, den |-> 1]
    ELSE IF cur * BarScale >= TrackWidth * max THEN [num |-> TrackWidth, den |-> 1]
    ELSE [num |-> cur * BarScale, den |-> max]

\* C1: for every current_xp >= 0 and max_xp > 0 the filled width create()
\* draws equals clamp(current_xp/max_xp * 420, 50, 420): never below 50,
\* never above 420.
C1_FilledWidthClamped ==
    bar_exp.den > 0 =>
        LET c == ClampedWidth(current_xp, max_xp)
        IN  /\ bar_exp.num * c.den = c.num * bar_exp.den
            /\ bar_exp.num >= BarFloor * bar_exp.den
            /\ bar_exp.num <= TrackWidth * bar_exp.den

(* ---- C2 ---- *)
\* C2: when the avatar given is not a string, create() fails with
\* InvalidImageType before any network fetch or file open/read of the call,
\* whatever the background is.
C2_AvatarTypeErrorBeforeIo ==
    (FirstCall /\ args.avatar.kind # "str") =>
        /\ \A s \in Sources : IoTotal(s) = 0
        /\ Finished => Last(outcomes) = "InvalidImageType"

(* ---- C3 ---- *)
\* C3: every failure create() raises is raised before any compositing step
\* has been performed, for every combination of inputs including max_xp = 0.
C3_FailuresPrecedeCompositing ==
    (Finished /\ Last(outcomes) # "ok") => steps = <<>>

(* ---- C4 ---- *)
\* C4: a further create() call on the same instance, with the same external
\* responses, has the same outcome as the first call.
C4_SecondCallSameOutcome ==
    Len(outcomes) >= 2 => outcomes[2] = outcomes[1]

(* ---- C5 ---- *)
\* C5: a background buffer that is seekable, readable and in byte mode is
\* accepted and decoded; one that fails any of the three makes create() fail
\* with InvalidImageType and with no other error kind.
C5_BufferAcceptance ==
    (args.background.kind = "buffer" /\ BackgroundHandled) =>
        LET b == args.background
        IN  IF b.seekable /\ b.readable /\ b.binary
            THEN /\ io["background"].decodes = 1
                 /\ Finished =>
                      Last(outcomes) \notin {"InvalidImageType", "AttributeError"}
            ELSE Finished /\ Last(outcomes) = "InvalidImageType"

(* ---- C6 ---- *)
InImage(s) == resolving = s /\ pc \in {"image_get", "image_status", "image_read",
                                       "image_decode", "image_exit"}

\* C6: for a remote source _image() issues exactly one GET; with status 200
\* the body is read and decoded; with any other status it fails with
\* InvalidImageUrl without reading or decoding the body, and that failure
\* ends the create() call: the GET is not repeated.
C6_OneGetStatusDecides ==
    \A s \in Sources :
        /\ io[s].gets <= 1
        /\ (resolving = s /\ pc \in {"image_status", "image_read", "image_decode",
                                     "image_exit"}) => io[s].gets = 1
        /\ (resolving = s /\ pc = "image_exit") =>
              IF status = 200
              THEN /\ io[s].reads = 1
                   /\ io[s].decodes = 1
                   /\ raised \in {"none", "UnidentifiedImageError"}
              ELSE /\ io[s].reads = 0
                   /\ io[s].decodes = 0
                   /\ raised = "InvalidImageUrl"
        /\ (io[s].gets = 1 /\ ~InImage(s) /\ StatusOf(world[s]) # 200) =>
              /\ Finished
              /\ Last(outcomes) = "InvalidImageUrl"
              /\ io[s].reads = 0
              /\ io[s].decodes = 0

\* the background was fetched and decoded, the avatar's GET was answered
\* 404, and the call ended with InvalidImageUrl
C6_Witness ==
    /\ Finished
    /\ Last(outcomes) = "InvalidImageUrl"
    /\ io["background"].gets = 1
    /\ io["background"].decodes = 1
    /\ io["avatar"].gets = 1
    /\ io["avatar"].reads = 0
    /\ world["avatar"] = "absent"

(* ---- C8 ---- *)
\* C8: within one create() call the background is resolved before the
\* resolution of the avatar starts, a remote source opens exactly one HTTP
\* session, at most one session is open at any moment, and every session
\* opened is closed when create() returns or raises.
C8_SessionsSequentialAndClosed ==
    /\ session \in {0, 1}
    /\ pc = "idle" => session = 0
    /\ \A s \in Sources :
          /\ io[s].sessions <= 1
          /\ InImage(s) => (io[s].sessions = 1 /\ session = 1)
          /\ io[s].gets >= 1 => io[s].sessions = 1
    /\ (pc = "avatar" \/ resolving = "avatar" \/ IoTotal("avatar") > 0) =>
          background.kind = "image"
    /\ (pc = "background" \/ resolving = "background") => IoTotal("avatar") = 0
    /\ pc = "avatar" => session = 0

\* both sources were remote, the second fetch failed, and no session is
\* left open after the call
C8_Witness ==
    /\ Finished
    /\ Last(outcomes) \in {"InvalidImageUrl", "UnidentifiedImageError"}
    /\ io["background"].sessions = 1
    /\ io["avatar"].sessions = 1
    /\ session = 0

(* ---- C9 ---- *)
\* the string begins with the characters of the HTTP scheme, "http"
BeginsWithHttp(s) ==
    /\ Len(s) >= 4
    /\ s[1] = "h" /\ s[2] = "t" /\ s[3] = "t" /\ s[4] = "p"

\* the first call has gone through the resolution of the avatar
AvatarHandled ==
    /\ FirstCall
    /\ \/ pc \in {"image_status", "image_read", "image_decode", "image_exit"}
             /\ resolving = "avatar"
       \/ steps # <<>>
       \/ pc = "avatar_resize"
       \/ Finished /\ background.kind = "image"

\* source s has been dealt with: its file was opened or its GET was issued
Handled(s) ==
    IF s = "background"
    THEN BackgroundHandled /\ pc \notin {"image_enter", "image_get"}
    ELSE AvatarHandled

ExpectedOps ==
    <<"avatar_resize", "background_paste", "overlay_paste", "username_text",
      "level_text", "xp_text", "avatar_paste", "bar_paste", "curved_mask",
      "final_resize", "png_encode">>

OpsDone == [i \in 1..Len(steps) |-> steps[i].op]

\* C10: on every successful create() call the compositing steps run exactly
\* once each and in the documented order, with the documented sizes and
\* positions; the returned buffer is positioned at its start; a failure of
\* the avatar alpha extraction does not abort the call.
C10_PipelineOrder ==
    /\ Len(steps) <= Len(ExpectedOps)
    /\ OpsDone = SubSeq(ExpectedOps, 1, Len(steps))
    /\ (Finished /\ Last(outcomes) = "ok") =>
          /\ OpsDone = ExpectedOps
          /\ steps[1].size = <<170, 170>>
          /\ steps[7].at = <<13, 65>>
          /\ steps[8].at = <<190, 235>>
          /\ steps[10].size = <<505, 259>>
          /\ bufPos = 0
    /\ \A i \in 1..Len(steps) :
          (steps[i].op = "avatar_paste" /\ ~steps[i].alpha) =>
              (Finished => Last(outcomes) = "ok")

\* a successful call whose alpha extraction failed
C10_Witness ==
    /\ Finished
    /\ Last(outcomes) = "ok"
    /\ Len(steps) = 11
    /\ ~steps[7].alpha
    /\ bufPos = 0

(* ---- C7 ---- *)
IsDigit(c) == \E d \in 1..10 : DigitChars[d] = c

DigitValue(c) == (CHOOSE d \in 1..10 : DigitChars[d] = c) - 1

AllDigits(s) == \A i \in 1..Len(s) : IsDigit(s[i])

\* the number a sequence of digits denotes
RECURSIVE Denotes(_)
Denotes(s) ==
    IF s = <<>> THEN 0
    ELSE 10 * Denotes(SubSeq(s, 1, Len(s) - 1)) + DigitValue(s[Len(s)])

\* a plain decimal numeral: digits only, no leading zero
IsNumeral(s) ==
    /\ Len(s) >= 1
    /\ AllDigits(s)
    /\ Len(s) > 1 => s[1] # "0"

\* s is <numeral> "." <3 digits> <suffix>
IsFixed3With(s, suffix) ==
    /\ Len(s) >= 6
    /\ s[Len(s)] = suffix
    /\ s[Len(s) - 4] = "."
    /\ AllDigits(SubSeq(s, Len(s) - 3, Len(s) - 1))
    /\ IsNumeral(SubSeq(s, 1, Len(s) - 5))

\* the value of such a text, in thousandths
ThousandthsIn(s) ==
    1000 * Denotes(SubSeq(s, 1, Len(s) - 5)) + Denotes(SubSeq(s, Len(s) - 3, Len(s) - 1))

\* C7: _convert_number(n) for n >= 0 selects its form by magnitude: below
\* 1000 the decimal string of n; from 1000 to 999999 n/1000 with exactly 3
\* decimals and "K"; from 1000000 on n/1000000 with exactly 3 decimals (the
\* nearest such value) and "M".
C7_ConvertNumberForm ==
    formatted # <<>> =>
        /\ number < 1000 => (IsNumeral(formatted) /\ Denotes(formatted) = number)
        /\ (number >= 1000 /\ number < 1000000) =>
              /\ IsFixed3With(formatted, "K")
              /\ ThousandthsIn(formatted) = number
        /\ number >= 1000000 =>
              /\ IsFixed3With(formatted, "M")
              /\ 1000 * ThousandthsIn(formatted) - number <= 500
              /\ number - 1000 * ThousandthsIn(formatted) <= 500
        /\ number = 999 => formatted = <<"9", "9", "9">>
        /\ number = 1000 => formatted = <<"1", ".", "0", "0", "0", "K">>
        /\ number = 999999 => formatted = <<"9", "9", "9", ".", "9", "9", "9", "K">>
        /\ number = 1000000 => formatted = <<"1", ".", "0", "0", "0", "M">>
        /\ number = 1500000 => formatted = <<"1", ".", "5", "0", "0", "M">>

\* the first M value has been formatted
C7_Witness ==
    /\ number = 1000000
    /\ formatted = <<"1", ".", "0", "0", "0", "M">>

====
